---- MODULE Spec2Model ----
(***************************************************************************)
(* Model of apiserver/fix_protos.py: a one-shot script that reads          *)
(* strategyService.ts, builds a table of regular-expression rewrites       *)
(* (fixes), performs one literal str.replace on the text, writes the text  *)
(* back and prints a completion notice.                                    *)
(*                                                                         *)
(* A document is a sequence of source fragments.  A fragment is a piece of *)
(* text that the patterns of the script treat as a unit: a return          *)
(* statement, the declaration of a method ("async name"), or other text.   *)
(* A return statement is understood to stand on its own line, so it is     *)
(* preceded by the indentation of that line.                               *)
(***************************************************************************)
EXTENDS Integers, Sequences, FiniteSets, TLC

VARIABLES pc, disk, content, stdout, err, runs, readText, orig

vars == <<pc, disk, content, stdout, err, runs, readText, orig>>

\* ------------------------------------------------------------------ bounds
MaxLen == 5
MaxRuns == 2

\* --------------------------------------------------------------- fragments
RetStrategy == "return { strategy };"
TailUSP == "\n  },\n\n  async updateStrategyPrivacy("
CreateUSP == "return create(UpdateStrategyPrivacyResponseSchema, { strategy });"
CreateCopy == "return create(CopyStrategyResponseSchema, { strategy });"

AsyncSendOTP == "async sendOTP"
RetOTPTrue == "return {\n  success: true,\n  message: \"ok\"};"
RetOTPFalse == "return {\n  success: false,\n  message: \"no\"};"
CreateOTPTrue == "return create(SendOTPResponseSchema, { success: true, message: \"ok\"});"
CreateOTPFalse == "return create(SendOTPResponseSchema, { success: false, message: \"no\"});"

RetUserProto == "return { user: protoUser };"
RetUserUndef == "return { user: undefined };"
AsyncUpdateUser == "async updateUser"
AsyncFollowUser == "async followUser"
CreateGCUProto == "return create(GetCurrentUserResponseSchema, { user: protoUser });"
CreateGCUUndef == "return create(GetCurrentUserResponseSchema, { user: undefined });"
CreateUpdateUser == "return create(UpdateUserResponseSchema, { user: protoUser });"

RetSuccess == "return { success: true };"
AsyncUnfollowUser == "async unfollowUser"
AsyncListFollowing == "async listFollowing"
CreateFollow == "return create(FollowUserResponseSchema, { success: true });"
CreateUnfollow == "return create(UnfollowUserResponseSchema, { success: true });"

RetUsers == "return { users };"
AsyncListFollowers == "async listFollowers"
AsyncListCloseFriends == "async listCloseFriends"
AsyncGetUserProfile == "async getUserProfile"
CreateListFollowing == "return create(ListFollowingResponseSchema, { users });"
CreateListFollowers == "return create(ListFollowersResponseSchema, { users });"
CreateListCloseFriends == "return create(ListCloseFriendsResponseSchema, { users });"

Other == "const x = 1;"

\* The fragments that contain the text "return create(".
CreateFragments ==
  {CreateUSP, CreateCopy, CreateOTPTrue, CreateOTPFalse, CreateGCUProto,
   CreateGCUUndef, CreateUpdateUser, CreateFollow, CreateUnfollow,
   CreateListFollowing, CreateListFollowers, CreateListCloseFriends}

\* ------------------------------------------------------------ input texts
LiteralFragments == {RetStrategy, TailUSP, CreateUSP, RetUsers, Other}
UsersFragments ==
  {RetUsers, AsyncListFollowers, AsyncListCloseFriends, AsyncGetUserProfile, Other}
OTPFragments == {AsyncSendOTP, RetOTPTrue, RetOTPFalse, Other}
UserFragments ==
  {RetUserProto, RetUserUndef, AsyncUpdateUser, AsyncFollowUser, RetStrategy}
FollowFragments ==
  {RetSuccess, AsyncUnfollowUser, AsyncListFollowing, RetStrategy, TailUSP}

SeqsUpTo(A, n) == UNION {[1..k -> A] : k \in 0..n}

Texts(A) == SeqsUpTo(A, MaxLen)

AllTexts ==
  Texts(LiteralFragments) \cup Texts(UsersFragments) \cup Texts(OTPFragments)
    \cup Texts(UserFragments) \cup Texts(FollowFragments)

\* ------------------------------------------------------------- str.replace
\* variant: the statement alone, without the context that follows it
oldWithoutContext == <<RetStrategy>>

old == <<RetStrategy, TailUSP>>

\* variant: the replacement text repeats the text it replaces
newUnchanged == <<RetStrategy, TailUSP>>

new == <<CreateUSP, TailUSP>>

\* s[i .. i+Len(sub)-1] = sub
OccursAt(s, sub, i) ==
  /\ i >= 1
  /\ i + Len(sub) - 1 <= Len(s)
  /\ SubSeq(s, i, i + Len(sub) - 1) = sub

RECURSIVE ReplaceFrom(_, _, _, _)
ReplaceFrom(s, o, n, i) ==
  IF i > Len(s) THEN <<>>
  ELSE IF OccursAt(s, o, i)
       THEN n \o ReplaceFrom(s, o, n, i + Len(o))
       ELSE <<s[i]>> \o ReplaceFrom(s, o, n, i + 1)

\* variant: str.replace(o, n, 1), the first occurrence only
StrReplaceFirst(s, o, n) ==
  IF \E i \in 1..Len(s) : OccursAt(s, o, i)
  THEN LET i == CHOOSE k \in 1..Len(s) :
                  OccursAt(s, o, k) /\ \A m \in 1..(k - 1) : ~OccursAt(s, o, m)
       IN  SubSeq(s, 1, i - 1) \o n \o SubSeq(s, i + Len(o), Len(s))
  ELSE s

\* str.replace(o, n): every non-overlapping occurrence, scanning from the left
StrReplace(s, o, n) == ReplaceFrom(s, o, n, 1)

Prefixes(s) == {SubSeq(s, 1, k) : k \in 0..Len(s)}

\* --------------------------------------------------------- the table fixes
\* A rule of the table is a record.  from maps each return statement the
\* pattern accepts to the statement the replacement produces for it.
\*   kind "tail"    the statement followed at once by the fragment tail,
\*                  which the pattern consumes and \3 puts back
\*   kind "head"    the fragment head, then lazily anything, then the first
\*                  statement; group 1 (head and what follows) is put back
\*   kind "ahead"   the statement, with the lookahead (?=[\s\S]*?marker)
\*   kind "anchor"  the statement, with the lookahead (?=[\s\S]*?^\};$):
\*                  the table gives no flags, and without MULTILINE ^ holds
\*                  only at the start of the text, never after a statement
fixes == <<
  [name |-> "UpdateStrategyPrivacy", kind |-> "tail",
   from |-> (RetStrategy :> CreateUSP), mark |-> TailUSP],
  [name |-> "SendOTP", kind |-> "head",
   from |-> (RetOTPTrue :> CreateOTPTrue @@ RetOTPFalse :> CreateOTPFalse),
   mark |-> AsyncSendOTP],
  [name |-> "GetCurrentUser", kind |-> "ahead",
   from |-> (RetUserProto :> CreateGCUProto @@ RetUserUndef :> CreateGCUUndef),
   mark |-> AsyncUpdateUser],
  [name |-> "UpdateUser", kind |-> "ahead",
   from |-> (RetUserProto :> CreateUpdateUser), mark |-> AsyncFollowUser],
  [name |-> "FollowUser", kind |-> "ahead",
   from |-> (RetSuccess :> CreateFollow), mark |-> AsyncUnfollowUser],
  [name |-> "UnfollowUser", kind |-> "ahead",
   from |-> (RetSuccess :> CreateUnfollow), mark |-> AsyncListFollowing],
  [name |-> "ListFollowing", kind |-> "ahead",
   from |-> (RetUsers :> CreateListFollowing), mark |-> AsyncListFollowers],
  [name |-> "ListFollowers", kind |-> "ahead",
   from |-> (RetUsers :> CreateListFollowers), mark |-> AsyncListCloseFriends],
  [name |-> "ListCloseFriends", kind |-> "ahead",
   from |-> (RetUsers :> CreateListCloseFriends), mark |-> AsyncGetUserProfile],
  [name |-> "CopyStrategy", kind |-> "anchor",
   from |-> (RetStrategy :> CreateCopy), mark |-> "\n};"]
>>

RuleNamed(n) == CHOOSE k \in DOMAIN fixes : fixes[k].name = n

\* the positions after i that hold a fragment of S
After(s, i, S) == {j \in (i + 1)..Len(s) : s[j] \in S}

Min(S) == CHOOSE m \in S : \A k \in S : m <= k

\* variant: the lookahead of an "ahead" pattern is left out
MatchLenNoLookahead(r, s, i) ==
  IF i < 1 \/ i > Len(s) THEN 0
  ELSE CASE r.kind = "tail" ->
              IF s[i] \in DOMAIN r.from /\ i < Len(s) /\ s[i + 1] = r.mark
              THEN 2 ELSE 0
         [] r.kind = "head" ->
              IF s[i] = r.mark /\ After(s, i, DOMAIN r.from) # {}
              THEN Min(After(s, i, DOMAIN r.from)) - i + 1 ELSE 0
         [] r.kind = "ahead" -> IF s[i] \in DOMAIN r.from THEN 1 ELSE 0
         [] r.kind = "anchor" -> 0

\* Number of fragments the pattern of rule r consumes when it matches at
\* position i of s; 0 when it does not match there.
MatchLen(r, s, i) ==
  IF i < 1 \/ i > Len(s) THEN 0
  ELSE CASE r.kind = "tail" ->
              IF s[i] \in DOMAIN r.from /\ i < Len(s) /\ s[i + 1] = r.mark
              THEN 2 ELSE 0
         [] r.kind = "head" ->
              IF s[i] = r.mark /\ After(s, i, DOMAIN r.from) # {}
              THEN Min(After(s, i, DOMAIN r.from)) - i + 1 ELSE 0
         [] r.kind = "ahead" ->
              IF s[i] \in DOMAIN r.from /\ After(s, i, {r.mark}) # {}
              THEN 1 ELSE 0
         [] r.kind = "anchor" -> 0

\* The text the replacement of rule r produces for the match at position i.
Replacement(r, s, i) ==
  CASE r.kind = "tail" -> <<r.from[s[i]], s[i + 1]>>
    [] r.kind = "head" ->
         LET j == Min(After(s, i, DOMAIN r.from))
         IN  SubSeq(s, i, j - 1) \o <<r.from[s[j]]>>
    [] r.kind = "ahead" -> <<r.from[s[i]]>>
    [] r.kind = "anchor" -> <<s[i]>>

\* the pattern of rule r matches somewhere in s
Matches(r, s) == \E i \in 1..Len(s) : MatchLen(r, s, i) > 0

\* the rules of the table whose pattern matches somewhere in s
MatchingRules(s) == {k \in DOMAIN fixes : Matches(fixes[k], s)}

RECURSIVE SubFrom(_, _, _)
SubFrom(r, s, i) ==
  IF i > Len(s) THEN <<>>
  ELSE IF MatchLen(r, s, i) > 0
       THEN Replacement(r, s, i) \o SubFrom(r, s, i + MatchLen(r, s, i))
       ELSE <<s[i]>> \o SubFrom(r, s, i + 1)

\* apply(rule, text): global substitution of rule r over s, every
\* non-overlapping match from the left
Sub(r, s) == SubFrom(r, s, 1)

RECURSIVE ApplyFrom(_, _)
ApplyFrom(k, s) ==
  IF k > Len(fixes) THEN s ELSE ApplyFrom(k + 1, Sub(fixes[k], s))

\* apply(rules, text): the rules of the table in declaration order, each
\* over the text the rule before it produced
Apply(s) == ApplyFrom(1, s)

\* the number of fragments of s that contain "return create("
RECURSIVE CountCreate(_)
CountCreate(s) ==
  IF s = <<>> THEN 0
  ELSE (IF Head(s) \in CreateFragments THEN 1 ELSE 0) + CountCreate(Tail(s))

\* the positions of s where the snippet "return { strategy };" followed by
\* "\n  },\n\n  async updateStrategyPrivacy(" begins
Occurrences(s) ==
  {i \in 1..Len(s) : i < Len(s) /\ s[i] = RetStrategy /\ s[i + 1] = TailUSP}

\* ----------------------------------------------------------------- script
Notice == "Fixed strategyService.ts"

InitOver(T) ==
  /\ disk \in T
  /\ orig = disk
  /\ pc = "start"
  /\ content = <<>>
  /\ readText = <<>>
  /\ stdout = <<>>
  /\ err = "none"
  /\ runs = 1

Init == InitOver(AllTexts)

\* with open(path, 'r') as f: content = f.read()
Load ==
  /\ pc = "start"
  /\ content' = disk
  /\ readText' = disk
  /\ pc' = "loaded"
  /\ UNCHANGED <<disk, stdout, err, runs, orig>>

\* open or read raises: the script aborts with the unhandled error
LoadFail ==
  /\ pc = "start"
  /\ err' = "read"
  /\ pc' = "aborted"
  /\ UNCHANGED <<disk, content, stdout, runs, readText, orig>>

\* variant: the rules of the table are applied to the text as well
ReplaceAndApply ==
  /\ pc = "loaded"
  /\ content' = Apply(StrReplace(content, old, new))
  /\ pc' = "replaced"
  /\ UNCHANGED <<disk, stdout, err, runs, readText, orig>>

\* content = content.replace(old, new); the table fixes is built before this
\* statement and is not used by it
Replace ==
  /\ pc = "loaded"
  /\ content' = StrReplace(content, old, new)
  /\ pc' = "replaced"
  /\ UNCHANGED <<disk, stdout, err, runs, readText, orig>>

\* with open(path, 'w') as f: f.write(content)
Save ==
  /\ pc = "replaced"
  /\ disk' = content
  /\ pc' = "written"
  /\ UNCHANGED <<content, stdout, err, runs, readText, orig>>

\* open(path, 'w') raises (file untouched) or the write raises after the file
\* was truncated (any prefix of the text may have reached the disk)
SaveFail ==
  /\ pc = "replaced"
  /\ disk' \in {disk} \cup (Prefixes(content) \ {content})
  /\ err' = "write"
  /\ pc' = "aborted"
  /\ UNCHANGED <<content, stdout, runs, readText, orig>>

\* variant: the notice is printed although the write raised
PrintDoneAnyway ==
  /\ pc \in {"written", "aborted"}
  /\ err # "read"
  /\ stdout' = Append(stdout, Notice)
  /\ pc' = "done"
  /\ UNCHANGED <<disk, content, err, runs, readText, orig>>

\* print("Fixed strategyService.ts")
PrintDone ==
  /\ pc = "written"
  /\ stdout' = Append(stdout, Notice)
  /\ pc' = "done"
  /\ UNCHANGED <<disk, content, err, runs, readText, orig>>

\* the operator starts the script again on the file a completed run left
Rerun ==
  /\ pc = "done"
  /\ runs < MaxRuns
  /\ runs' = runs + 1
  /\ pc' = "start"
  /\ content' = <<>>
  /\ readText' = <<>>
  /\ orig' = disk
  /\ UNCHANGED <<disk, stdout, err>>

Next ==
  \/ Load
  \/ LoadFail
  \/ Replace
  \/ Save
  \/ SaveFail
  \/ PrintDone
  \/ Rerun

Spec == Init /\ [][Next]_vars

SpecLiteral == InitOver(Texts(LiteralFragments)) /\ [][Next]_vars

SpecUsers == InitOver(Texts(UsersFragments)) /\ [][Next]_vars

SpecOTP == InitOver(Texts(OTPFragments)) /\ [][Next]_vars

TypeOK ==
  /\ pc \in {"start", "loaded", "replaced", "written", "done", "aborted"}
  /\ err \in {"none", "read", "write"}
  /\ runs \in 1..MaxRuns
  /\ Len(stdout) <= runs

\* ------------------------------------------------------------------ claims
\* the script has written the text back in the current run
Written == pc \in {"written", "done"}

\* C1: every occurrence of the literal snippet in the text read appears in
\* the text written as the replacement snippet, at the same place, and the
\* text written contains no occurrence of the original snippet.
C1_LiteralSnippetReplaced ==
  Written =>
    /\ Len(disk) = Len(readText)
    /\ \A i \in Occurrences(readText) :
         disk[i] = CreateUSP /\ disk[i + 1] = TailUSP
    /\ Occurrences(disk) = {}

\* C1 witness: a completed first run over a text with two occurrences
C1_Witness ==
  pc = "done" /\ runs = 1 /\ Cardinality(Occurrences(readText)) = 2

\* C2: the text written is the text read after every rule of the table has
\* been applied to it in declaration order, each as a global substitution
\* over the text the rule before it produced.
C2_EveryRuleApplied == Written => disk = Apply(readText)

\* C3: when async listFollowers, async listCloseFriends and async
\* getUserProfile each occur once, in that order, a return { users }; before
\* async listFollowers is written back with ListFollowingResponseSchema and
\* one between async listCloseFriends and async getUserProfile with
\* ListCloseFriendsResponseSchema.
C3_UsersDisambiguated ==
  Written =>
    \A a, b, c \in 1..Len(readText) :
      ( /\ a < b /\ b < c
        /\ After(readText, 0, {AsyncListFollowers}) = {a}
        /\ After(readText, 0, {AsyncListCloseFriends}) = {b}
        /\ After(readText, 0, {AsyncGetUserProfile}) = {c} )
      => /\ Len(disk) = Len(readText)
         /\ \A i \in 1..Len(readText) :
              readText[i] = RetUsers =>
                /\ i < a => disk[i] = CreateListFollowing
                /\ (b < i /\ i < c) => disk[i] = CreateListCloseFriends

\* C4: every multi-line success/message return in the body of async sendOTP
\* is written back as create(SendOTPResponseSchema, ...) with the same
\* boolean and message.
C4_SendOTPRewritten ==
  Written =>
    \A i \in 1..Len(readText) :
      ( /\ readText[i] \in {RetOTPTrue, RetOTPFalse}
        /\ \E h \in 1..(i - 1) : readText[h] = AsyncSendOTP )
      => /\ Len(disk) = Len(readText)
         /\ disk[i] = (IF readText[i] = RetOTPTrue
                       THEN CreateOTPTrue ELSE CreateOTPFalse)

\* C5: in the text a run has written neither a pattern of the table nor the
\* literal snippet matches, and a run on the output of a previous run writes
\* back the text it read.
C5_SecondRunNoOp ==
  Written =>
    /\ MatchingRules(disk) = {}
    /\ Occurrences(disk) = {}
    /\ runs > 1 => disk = readText

C7_NoMarkerNoRewrite ==
  Written =>
    /\ err = "none"
    /\ Len(disk) = Len(readText)
    /\ \A i \in 1..Len(readText) :
         ( /\ readText[i] = RetUsers
           /\ After(readText, i, {AsyncListFollowers}) = {} )
         => /\ MatchLen(fixes[RuleNamed("ListFollowing")], readText, i) = 0
            /\ disk[i] # CreateListFollowing

\* C7 witness: a completed run over a text whose only async listFollowers
\* stands before a return { users };
C7_Witness ==
  /\ pc = "done"
  /\ \E i \in 1..Len(readText) :
       /\ readText[i] = RetUsers
       /\ After(readText, i, {AsyncListFollowers}) = {}
       /\ \E j \in 1..(i - 1) : readText[j] = AsyncListFollowers
       /\ disk[i] = RetUsers

\* nothing matches in s: no pattern of the table, no literal snippet
NothingMatches(s) == MatchingRules(s) = {} /\ Occurrences(s) = {}

\* C8: when nothing matches in the text read the replacement step can still
\* be taken, the text written is the text read, no error is raised, and the
\* completed run has printed the notice.
C8_ZeroMatchRun ==
  /\ (pc = "loaded" /\ NothingMatches(readText)) => ENABLED Replace
  /\ (Written /\ NothingMatches(readText)) => (disk = readText /\ err = "none")
  /\ (pc = "done" /\ NothingMatches(readText)) =>
       (Len(stdout) = runs /\ stdout[runs] = Notice)

\* C8 witness: a completed run over a non-empty text with a return
\* { strategy }; that nothing matches
C8_Witness ==
  /\ pc = "done"
  /\ NothingMatches(readText)
  /\ \E i \in 1..Len(readText) : readText[i] = RetStrategy
  /\ disk = readText

\* C9: a failed read leaves the file as it was and prints nothing; a failed
\* write prints nothing; the notice of a run is printed only after its read
\* and its write have completed; an aborted run takes no further step.
C9_FatalIO ==
  /\ err = "read" => (disk = orig /\ Len(stdout) < runs /\ pc = "aborted")
  /\ err = "write" => (Len(stdout) < runs /\ pc = "aborted")
  /\ Len(stdout) = runs =>
       (pc = "done" /\ err = "none" /\ disk = content)
  /\ pc = "aborted" => ~ENABLED Next

\* C9 witness: the write of the second run failed after part of the text
\* had reached the file
C9_Witness ==
  /\ err = "write"
  /\ runs = 2
  /\ disk # orig
  /\ disk # content

====
